---- MODULE Spec2Model ----
(***************************************************************************)
(* Model of the Prycing option pricers: the triangular Tree store of       *)
(* options/utils.py, binom_option of options/binom.py, lsm /               *)
(* add_cash_flows / npv of options/lsm.py and simulate_gbm of              *)
(* options/gbm.py.                                                         *)
(*                                                                         *)
(* Floats are modelled by integers.  Python lists are sequences; a Python  *)
(* index idx into a list of length n is position idx + 1 when              *)
(* 0 <= idx < n, position n + idx + 1 when -n <= idx < 0, and an           *)
(* IndexError otherwise.                                                   *)
(***************************************************************************)
EXTENDS Integers, Sequences, FiniteSets, TLC

\* ------------------------------------------------------------------ bounds
\* Largest height a Tree is created with.
MaxHeight == 2

\* Values stored with set_node (the ones test_tree_repr stores).
Values == {1, 2, 3}

\* Heights given to Tree(): -1 is the rejected one.
Heights == (0 - 1) .. MaxHeight

\* Levels and elements given to get_node / set_node / get_level: one below
\* zero and one above the height are the out-of-range ones.
Args == (0 - 1) .. (MaxHeight + 1)

\* ------------------------------------------------------------------- state
VARIABLES
    created,    \* TRUE once Tree.__init__ has returned normally
    height,     \* Tree.height
    nodes,      \* Tree._nodes
    call,       \* the call the caller has just made: [op, level, element, value]
    result      \* what it did: [status, ret, text]

treeVars == <<created, height, nodes, call, result>>

VARIABLES
    lsm_pc,                   \* where lsm is: "idle", "start", "loop", "fitted", "done"
    number_of_steps,          \* np.shape(paths)[0], the number of rows
    lsm_i,                    \* the loop variable i of lsm
    current_intrinsic_values, \* intrinsic_value[-i, :] of the last round
    ols_fit,                  \* ols_fits[-1]: fittedvalues * strike, or <<>>
    cash_flows,               \* the list of cash-flow vectors
    realized_cash_flows,      \* the regression target of the next round
    lsm_T,                    \* the horizon T lsm was called with
    lsm_value,                \* the value npv returned to lsm
    regress_call,             \* the call of regress_fun of the round, if any
    terminal_payoff,          \* history: payoff_fun(paths)[-1, p] as returned,
                              \* kept for the paths p not in exercise_log
    evaluated,                \* history: the time indices of the rows read
    exercise_log              \* history: per path, the earliest time index at
                              \* which its early exercise improved, and its
                              \* intrinsic value there: [time, value]

lsmVars == <<lsm_pc, number_of_steps, lsm_i, current_intrinsic_values, ols_fit,
             cash_flows, realized_cash_flows, lsm_T, lsm_value, regress_call,
             terminal_payoff, evaluated, exercise_log>>

VARIABLES
    binom_pc,     \* where binom_option is: "idle", "start", "forward",
                  \* "terminal", "backward", "done", "failed"
    steps,        \* the argument steps
    option,       \* the argument option: [S, K, price_fun]
    stock_tree,   \* stock_tree._nodes
    value_tree,   \* value_tree._nodes
    last_level,   \* last_level
    binom_i,      \* the loop variable i of the loop binom_option is in
    binom_j,      \* the loop variable j of the inner loop it is in
    accesses      \* the get_node / set_node calls of the last statement

binomVars == <<binom_pc, steps, option, stock_tree, value_tree, last_level,
               binom_i, binom_j, accesses>>

VARIABLES
    gbm_pc,       \* where simulate_gbm is: "idle", "start", "loop", "done",
                  \* "raised"
    gbm_args,     \* its arguments: [T, number_of_paths, number_of_steps]
    gbm_raised,   \* the exception it raised, or "none"
    gbm_output,   \* the list output of rows; the returned matrix once "done"
    gbm_i         \* the loop variable i

gbmVars == <<gbm_pc, gbm_args, gbm_raised, gbm_output, gbm_i>>

vars == <<treeVars, lsmVars, binomVars, gbmVars>>

\* ------------------------------------------------------ options/utils.py
\* The fill value float('NaN') of Tree.__init__, distinct from every value
\* that set_node stores.
NaN == -1

gauss_first_formula(n) == (n * (n + 1)) \div 2

\* Python list indexing: is idx an index of the list ns, and which position.
InRange(ns, idx) == idx >= 0 - Len(ns) /\ idx < Len(ns)

Pos(ns, idx) == IF idx < 0 THEN Len(ns) + idx + 1 ELSE idx + 1

Ok(ret) == [status |-> "ok", ret |-> ret, text |-> ""]

Raised(exc) == [status |-> exc, ret |-> <<>>, text |-> ""]

\* [value] * gauss_first_formula(height)
Tree_init_alloc_spec(h) == [i \in 1 .. (gauss_first_formula(h) + h + 1) |-> NaN]

Tree_init(h) == [i \in 1 .. gauss_first_formula(h) |-> NaN]

\* Tree.get_level: self._nodes[gauss_first_formula(level - 1):last_node]
get_level_drop_first(ns, level) ==
    IF level < 0 THEN Raised("Exception")
    ELSE IF gauss_first_formula(level) > Len(ns) THEN Raised("Exception")
    ELSE Ok(SubSeq(ns, gauss_first_formula(level - 1) + 2,
                   gauss_first_formula(level)))

get_level(ns, level) ==
    IF level < 0 THEN Raised("Exception")
    ELSE IF gauss_first_formula(level) > Len(ns) THEN Raised("Exception")
    ELSE Ok(SubSeq(ns, gauss_first_formula(level - 1) + 1,
                   gauss_first_formula(level)))

\* Tree.get_node: the returned value is ret[1].
get_node(ns, level, element) ==
    IF element > level THEN Raised("Exception")
    ELSE IF ~InRange(ns, gauss_first_formula(level) + element)
         THEN Raised("IndexError")
    ELSE Ok(<<ns[Pos(ns, gauss_first_formula(level) + element)]>>)

\* Tree.set_node: [status, nodes], nodes being the list afterwards.
set_node_level_offset(ns, level, element, value) ==
    IF element > level THEN [status |-> "Exception", nodes |-> ns]
    ELSE IF ~InRange(ns, gauss_first_formula(level - 1) + element)
         THEN [status |-> "IndexError", nodes |-> ns]
    ELSE [status |-> "ok",
          nodes |-> [ns EXCEPT
              ![Pos(ns, gauss_first_formula(level - 1) + element)] = value]]

set_node_unchecked(ns, level, element, value) ==
    IF ~InRange(ns, gauss_first_formula(level) + element)
    THEN [status |-> "IndexError", nodes |-> ns]
    ELSE [status |-> "ok",
          nodes |-> [ns EXCEPT
              ![Pos(ns, gauss_first_formula(level) + element)] = value]]

set_node(ns, level, element, value) ==
    IF element > level THEN [status |-> "Exception", nodes |-> ns]
    ELSE IF ~InRange(ns, gauss_first_formula(level) + element)
         THEN [status |-> "IndexError", nodes |-> ns]
    ELSE [status |-> "ok",
          nodes |-> [ns EXCEPT
              ![Pos(ns, gauss_first_formula(level) + element)] = value]]

\* str(val) of a stored number or of the fill value.
Str(val) == IF val = NaN THEN "nan" ELSE ToString(val)

\* reversed(level)
Reversed(s) == [k \in 1 .. Len(s) |-> s[Len(s) + 1 - k]]

\* ', '.join(str(val) for val in s)
RECURSIVE Join(_)
Join(s) ==
    IF Len(s) = 0 THEN ""
    ELSE IF Len(s) = 1 THEN Str(s[1])
    ELSE Str(s[1]) \o ", " \o Join(Tail(s))

\* One round of the loop of Tree.__repr__.
repr_line_in_order(ns, i) == "\n" \o Join(get_level(ns, i).ret)

repr_line(ns, i) == "\n" \o Join(Reversed(get_level(ns, i).ret))

\* Tree.__repr__: the rounds i = from .. h, appended to output.
RECURSIVE repr_loop(_, _, _, _)
repr_loop(ns, h, i, output) ==
    IF i > h THEN output
    ELSE repr_loop(ns, h, i + 1, output \o repr_line(ns, i))

Tree_repr(ns, h) == repr_loop(ns, h, 0, "")

\* ---------------------------------------------------------- Tree actions
NoCall == [op |-> "none", level |-> 0, element |-> 0, value |-> 0]

TreeIdle ==
    /\ created = FALSE
    /\ height = 0
    /\ nodes = <<>>
    /\ call = NoCall
    /\ result = Raised("none")

\* Tree(h)
Create(h) ==
    /\ call = NoCall
    /\ ~created
    /\ call' = [op |-> "create", level |-> h, element |-> 0, value |-> 0]
    /\ UNCHANGED <<lsmVars, binomVars, gbmVars>>
    /\ IF h < 0
       THEN /\ result' = Raised("Exception")
            /\ UNCHANGED <<created, height, nodes>>
       ELSE /\ created' = TRUE
            /\ height' = h
            /\ nodes' = Tree_init(h)
            /\ result' = Ok(<<>>)

\* tree.get_level(level)
GetLevel(level) ==
    /\ call = NoCall
    /\ created
    /\ call' = [op |-> "get_level", level |-> level, element |-> 0, value |-> 0]
    /\ result' = get_level(nodes, level)
    /\ UNCHANGED <<created, height, nodes, lsmVars, binomVars, gbmVars>>

\* tree.get_node(level, element)
GetNode(level, element) ==
    /\ call = NoCall
    /\ created
    /\ call' = [op |-> "get_node", level |-> level, element |-> element,
                value |-> 0]
    /\ result' = get_node(nodes, level, element)
    /\ UNCHANGED <<created, height, nodes, lsmVars, binomVars, gbmVars>>

\* tree.set_node(level, element, value)
SetNode(level, element, value) ==
    /\ call = NoCall
    /\ created
    /\ call' = [op |-> "set_node", level |-> level, element |-> element,
                value |-> value]
    /\ LET r == set_node(nodes, level, element, value)
       IN /\ nodes' = r.nodes
          /\ result' = IF r.status = "ok" THEN Ok(<<>>) ELSE Raised(r.status)
    /\ UNCHANGED <<created, height, lsmVars, binomVars, gbmVars>>

\* repr(tree)
Repr ==
    /\ call = NoCall
    /\ created
    /\ call' = [op |-> "repr", level |-> 0, element |-> 0, value |-> 0]
    /\ result' = [status |-> "ok", ret |-> <<>>, text |-> Tree_repr(nodes, height)]
    /\ UNCHANGED <<created, height, nodes, lsmVars, binomVars, gbmVars>>

\* The caller has read the outcome of its call and is free to make the next.
Return ==
    /\ call # NoCall
    /\ call' = NoCall
    /\ result' = Raised("none")
    /\ UNCHANGED <<created, height, nodes, lsmVars, binomVars, gbmVars>>

TreeNext ==
    \/ \E h \in Heights : Create(h)
    \/ \E level \in Args : GetLevel(level)
    \/ \E level \in Args, element \in Args : GetNode(level, element)
    \/ \E level \in Args, element \in Args, value \in Values :
           SetNode(level, element, value)
    \/ Repr
    \/ Return

\* -------------------------------------------------------- options/lsm.py
\* Number of paths (columns of the path matrix).
NumPaths == 2

\* Largest number of rows of the path matrix (time indices 0 .. rows - 1).
MaxRows == 4

\* Largest intrinsic value payoff_fun gives a path at a time index.
MaxIntrinsic == 1

\* Largest horizon T.
MaxT == 2

Paths == 1 .. NumPaths

\* The rows payoff_fun(paths) can hold.
Rows == [Paths -> 0 .. MaxIntrinsic]

\* What regress_fun (statsmodels OLS, not in the repository) may return for
\* a path, relative to the path's intrinsic value: a fitted value times
\* strike just below it, equal to it, or just above it.
Residuals == {0 - 1, 0, 1}

Zeros == [p \in Paths |-> 0]

\* np.where(in_money)[0]: the path indices in the money, in increasing order.
RECURSIVE where_from(_, _)
where_from(in_money, p) ==
    IF p > NumPaths THEN <<>>
    ELSE IF in_money[p] THEN <<p>> \o where_from(in_money, p + 1)
    ELSE where_from(in_money, p + 1)

where(in_money) == where_from(in_money, 1)

\* vec[is_stopped] = 0.0
zero_out_nothing(vec, is_stopped) == vec

zero_out_everywhere(vec, is_stopped) ==
    [p \in Paths |-> IF \E q \in Paths : is_stopped[q] THEN 0 ELSE vec[p]]

zero_out(vec, is_stopped) ==
    [p \in Paths |-> IF is_stopped[p] THEN 0 ELSE vec[p]]

\* The sum over the vectors vecs[k .. ] of the entries of path p.
RECURSIVE sum_from(_, _, _)
sum_from(vecs, k, p) ==
    IF k > Len(vecs) THEN 0 ELSE vecs[k][p] + sum_from(vecs, k + 1, p)

\* add_cash_flows: [output, realized_cash_flows]; the vectors of cash_flows
\* are zeroed in place and are the ones output holds.
add_cash_flows_appending(cfs, early_cash_flows) ==
    LET is_stopped == [p \in Paths |-> early_cash_flows[p] > 0]
        zeroed == [k \in 1 .. Len(cfs) |-> zero_out(cfs[k], is_stopped)]
    IN [output |-> zeroed \o <<early_cash_flows>>,
        realized_cash_flows |->
            [p \in Paths |-> early_cash_flows[p] + sum_from(zeroed, 1, p)]]

add_cash_flows(cfs, early_cash_flows) ==
    LET is_stopped == [p \in Paths |-> early_cash_flows[p] > 0]
        zeroed == [k \in 1 .. Len(cfs) |-> zero_out(cfs[k], is_stopped)]
    IN [output |-> <<early_cash_flows>> \o zeroed,
        realized_cash_flows |->
            [p \in Paths |-> early_cash_flows[p] + sum_from(zeroed, 1, p)]]

\* in_money = current_intrinsic_values > 0
in_money_of(civ) == [p \in Paths |-> civ[p] > 0]

\* The early cash flows of one round of lsm: fitted[k] is
\* ols_fit.fittedvalues[k] * strike, the fit of the k-th path in the money.
early_cash_flows_of_at_or_below(civ, fitted) ==
    LET idx == where(in_money_of(civ))
        improvements == {idx[k] : k \in {n \in 1 .. Len(idx) :
                                             fitted[n] <= civ[idx[n]]}}
    IN [p \in Paths |-> IF p \in improvements THEN civ[p] ELSE 0]

early_cash_flows_of(civ, fitted) ==
    LET idx == where(in_money_of(civ))
        improvements == {idx[k] : k \in {n \in 1 .. Len(idx) :
                                             fitted[n] < civ[idx[n]]}}
    IN [p \in Paths |-> IF p \in improvements THEN civ[p] ELSE 0]

\* intrinsic_value[-i, :] of a matrix of `rows` rows: the row of time
\* index rows - i.
row_index_below(rows, i) == rows - i - 1

row_index(rows, i) == rows - i

\* The strike lsm is called with.
Strike == 2

\* The target of regress_fun: realized_cash_flows[in_money] / strike, each
\* quotient as the fraction num / den.
regress_target_all_paths(realized, in_money) ==
    [p \in Paths |-> [num |-> realized[p], den |-> Strike]]

regress_target(realized, in_money) ==
    LET idx == where(in_money)
    IN [k \in 1 .. Len(idx) |-> [num |-> realized[idx[k]], den |-> Strike]]

NoRegress == [called |-> FALSE, y |-> <<>>]

\* early_exercise of the path p, the n-th of the paths in the money:
\* ols_fit.fittedvalues * strike < current_intrinsic_values[in_money]
improves(civ, fitted, p) ==
    /\ civ[p] > 0
    /\ LET idx == where(in_money_of(civ))
       IN \E n \in 1 .. Len(idx) : idx[n] = p /\ fitted[n] < civ[p]

NoExercise == [time |-> 0, value |-> 0]

\* The history of a path after a round at time index t in which its early
\* exercise improved with the intrinsic value v.
logged(old, t, v) ==
    IF old.time = 0 \/ t < old.time THEN [time |-> t, value |-> v] ELSE old

\* The per-step time increment lsm hands to npv, as the fraction num / den
\* that multiplies the rate: discount_rate / (number_of_steps / T).
npv_dt(rows, T) == [num |-> T, den |-> rows]

\* npv: the k-th vector is multiplied by discount_step ^ powers[k], where
\* discount_step = exp(-rate * dt); discounted[p][e] is the coefficient of
\* discount_step ^ e in discounted_cash_flows[p].  The loop from vector k
\* on, power being the exponent discount_rate holds.
RECURSIVE npv_powers_from_zero(_, _, _)
npv_powers_from_zero(matrix, k, power) ==
    IF k > Len(matrix) THEN <<>>
    ELSE <<power - 1>> \o npv_powers_from_zero(matrix, k + 1, power + 1)

RECURSIVE npv_powers(_, _, _)
npv_powers(matrix, k, power) ==
    IF k > Len(matrix) THEN <<>>
    ELSE <<power>> \o npv_powers(matrix, k + 1, power + 1)

npv(matrix, dt) ==
    LET powers == npv_powers(matrix, 1, 1)
    IN [dt |-> dt,
        powers |-> powers,
        discounted |->
            [p \in Paths |->
                [e \in 1 .. Len(matrix) |->
                    sum_from([k \in 1 .. Len(matrix) |->
                                 [q \in Paths |->
                                     IF powers[k] = e THEN matrix[k][q] ELSE 0]],
                             1, p)]],
        paths |-> NumPaths]

NoValue == [dt |-> [num |-> 0, den |-> 1], powers |-> <<>>,
            discounted |-> <<>>, paths |-> 0]

LsmRest ==
    /\ number_of_steps = 0
    /\ lsm_i = 0
    /\ current_intrinsic_values = Zeros
    /\ ols_fit = <<>>
    /\ cash_flows = <<>>
    /\ realized_cash_flows = Zeros
    /\ lsm_T = 0
    /\ lsm_value = NoValue
    /\ regress_call = NoRegress
    /\ terminal_payoff = Zeros
    /\ evaluated = <<>>
    /\ exercise_log = [p \in Paths |-> NoExercise]

LsmIdle == lsm_pc = "idle" /\ LsmRest

\* lsm up to its loop, on a path matrix of `rows` rows whose last row has
\* the intrinsic values `terminal`.
LsmStart(rows, terminal) ==
    /\ lsm_pc = "start"
    /\ lsm_pc' = "loop"
    /\ number_of_steps' = rows
    /\ realized_cash_flows' = terminal
    /\ cash_flows' = <<terminal>>
    /\ ols_fit' = <<>>
    /\ lsm_i' = 2
    /\ terminal_payoff' = terminal
    /\ UNCHANGED <<current_intrinsic_values, lsm_T, lsm_value, regress_call,
                   evaluated, exercise_log, treeVars, binomVars, gbmVars>>

\* The first half of a round of the loop of lsm, up to the regression: row
\* is intrinsic_value[-i, :], read here for the first and only time, and
\* res[k] is where regress_fun puts the fitted value of the k-th path in
\* the money.  With no path in the money ols_fits gets [].
Regress(row, res) ==
    /\ lsm_pc = "loop"
    /\ lsm_i < number_of_steps
    /\ lsm_pc' = "fitted"
    /\ current_intrinsic_values' = row
    /\ LET idx == where(in_money_of(row))
       IN ols_fit' = [k \in 1 .. Len(idx) |-> row[idx[k]] + res[k]]
    /\ regress_call' =
           IF \E p \in Paths : in_money_of(row)[p]
           THEN [called |-> TRUE,
                 y |-> regress_target(realized_cash_flows, in_money_of(row))]
           ELSE NoRegress
    /\ evaluated' = Append(evaluated, row_index(number_of_steps, lsm_i))
    /\ UNCHANGED <<number_of_steps, lsm_i, cash_flows, realized_cash_flows,
                   lsm_T, lsm_value, terminal_payoff, exercise_log, treeVars,
                   binomVars, gbmVars>>

\* The second half of the round: the early cash flows and add_cash_flows.
\* current_intrinsic_values, ols_fit and the arguments of regress_fun are
\* not read again before the next round overwrites them, and are cleared
\* here.
AddCashFlows ==
    /\ lsm_pc = "fitted"
    /\ LET early == IF \E p \in Paths : in_money_of(current_intrinsic_values)[p]
                    THEN early_cash_flows_of(current_intrinsic_values, ols_fit)
                    ELSE Zeros
           added == add_cash_flows(cash_flows, early)
       IN /\ cash_flows' = added.output
          /\ realized_cash_flows' = added.realized_cash_flows
    /\ lsm_i' = lsm_i + 1
    /\ lsm_pc' = "loop"
    /\ current_intrinsic_values' = Zeros
    /\ ols_fit' = <<>>
    /\ regress_call' = NoRegress
    /\ exercise_log' =
           [p \in Paths |->
               IF improves(current_intrinsic_values, ols_fit, p)
               THEN logged(exercise_log[p], evaluated[Len(evaluated)],
                           current_intrinsic_values[p])
               ELSE exercise_log[p]]
    /\ terminal_payoff' =
           [p \in Paths |->
               IF improves(current_intrinsic_values, ols_fit, p)
               THEN 0 ELSE terminal_payoff[p]]
    /\ UNCHANGED <<number_of_steps, lsm_T, lsm_value, evaluated, treeVars,
                   binomVars, gbmVars>>

\* The loop is over: value = npv(cash_flows, discount_rate /
\* (number_of_steps / T)), and lsm returns.  T is an argument of lsm that
\* nothing reads before this line, and is drawn here.
LsmReturn(T) ==
    /\ lsm_pc = "loop"
    /\ lsm_i >= number_of_steps
    /\ lsm_T' = T
    /\ lsm_value' = npv(cash_flows, npv_dt(number_of_steps, T))
    /\ lsm_pc' = "done"
    /\ UNCHANGED <<number_of_steps, lsm_i, current_intrinsic_values, ols_fit,
                   cash_flows, realized_cash_flows, regress_call,
                   terminal_payoff, evaluated, exercise_log, treeVars,
                   binomVars, gbmVars>>

LsmNext ==
    \/ \E rows \in 2 .. MaxRows, terminal \in Rows : LsmStart(rows, terminal)
    \/ \E row \in Rows :
           \E res \in [1 .. Len(where(in_money_of(row))) -> Residuals] :
               Regress(row, res)
    \/ AddCashFlows
    \/ \E T \in 1 .. MaxT : LsmReturn(T)

\* ------------------------------------------------------ options/binom.py
\* Largest number of steps binom_option is called with.
MaxSteps == 4

\* u = math.exp(sigma * math.sqrt(dt)): the inputs are taken with u = 2.
U == 2

\* cc_rate = math.exp(discount_rate * dt): taken with cc_rate = 2.
CcRate == 2

\* math.exp((discount_rate - dividend_yield) * dt): taken as 1.
Growth == 1

\* q_u = (Growth - d) / (u - d) and q_d = 1 - q_u with d = 1 / u, as
\* fractions over the common denominator QDen.
QDen == U * U - 1

QuNum == Growth * U - 1

QdNum == QDen - QuNum

\* The spot: a multiple of U ^ (MaxSteps - 1) and of
\* (QDen * CcRate) ^ (MaxSteps - 1), so that every product with d = 1 / u
\* and every discounted expectation the lattices hold is a whole number.
Spot == (U * QDen * CcRate) ^ (MaxSteps - 1)

Options == [S : {Spot}, K : {Spot \div U, Spot, Spot * U},
            price_fun : {"call", "put"}]

\* x * u and x * d
times_u(x) == x * U

times_d_twice(x) == x \div (U * U)

times_d(x) == x \div U

\* option.price_fun(S, K): the pay-offs of test_binom.py.
price_fun(kind, S, K) ==
    IF kind = "call" THEN (IF S - K > 0 THEN S - K ELSE 0)
    ELSE (IF K - S > 0 THEN K - S ELSE 0)

\* v_t = (1 / cc_rate) * (q_u * up + q_d * down)
v_t_weights_swapped(up, down) ==
    (QdNum * up + QuNum * down) \div (QDen * CcRate)

v_t(up, down) == (QuNum * up + QdNum * down) \div (QDen * CcRate)

\* range(1, steps): the levels the forward pass fills.
forward_levels_through_steps(n) == 1 .. n

forward_levels(n) == 1 .. (n - 1)

\* One lattice access: the tree, "get" or "set", the arguments, how it
\* ended and, for a get, the value returned (in ret[1]).
Access(tree, op, level, element, status, ret) ==
    [tree |-> tree, op |-> op, level |-> level, element |-> element,
     status |-> status, ret |-> ret]

NoOption == [S |-> 0, K |-> 0, price_fun |-> "none"]

BinomRest ==
    /\ steps = 0
    /\ option = NoOption
    /\ stock_tree = <<>>
    /\ value_tree = <<>>
    /\ last_level = <<>>
    /\ binom_i = 0
    /\ binom_j = 0
    /\ accesses = <<>>

BinomIdle == binom_pc = "idle" /\ BinomRest

\* binom_option(opt, ..., n) up to the forward loop: stock_tree =
\* utils.Tree(steps); stock_tree.set_node(0, 0, option.S).
SetSpot(opt, n) ==
    /\ binom_pc = "start"
    /\ steps' = n
    /\ option' = opt
    /\ LET w == set_node(Tree_init(n), 0, 0, opt.S)
       IN /\ stock_tree' = w.nodes
          /\ accesses' = <<Access("stock", "set", 0, 0, w.status, <<>>)>>
          /\ binom_pc' = IF w.status = "ok" THEN "forward" ELSE "failed"
    /\ binom_i' = 1
    /\ binom_j' = 0
    /\ UNCHANGED <<value_tree, last_level, treeVars, lsmVars, gbmVars>>

\* stock_tree.set_node(i, 0, stock_tree.get_node(i - 1, 0) * u)
ForwardUp ==
    /\ binom_pc = "forward"
    /\ binom_i \in forward_levels(steps)
    /\ binom_j = 0
    /\ LET g == get_node(stock_tree, binom_i - 1, 0)
           w == set_node(stock_tree, binom_i, 0, times_u(g.ret[1]))
       IN IF g.status # "ok"
          THEN /\ accesses' = <<Access("stock", "get", binom_i - 1, 0, g.status, g.ret)>>
               /\ binom_pc' = "failed"
               /\ UNCHANGED <<stock_tree, binom_j>>
          ELSE /\ accesses' = <<Access("stock", "get", binom_i - 1, 0, g.status, g.ret),
                                Access("stock", "set", binom_i, 0, w.status, <<>>)>>
               /\ stock_tree' = w.nodes
               /\ binom_pc' = IF w.status = "ok" THEN "forward" ELSE "failed"
               /\ binom_j' = 1
    /\ UNCHANGED <<steps, option, value_tree, last_level, binom_i, treeVars,
                   lsmVars, gbmVars>>

\* stock_tree.set_node(i, j, stock_tree.get_node(i - 1, j - 1) * d), and
\* after the round j = i the next i.
ForwardDown ==
    /\ binom_pc = "forward"
    /\ binom_i \in forward_levels(steps)
    /\ binom_j >= 1
    /\ binom_j <= binom_i
    /\ LET g == get_node(stock_tree, binom_i - 1, binom_j - 1)
           w == set_node(stock_tree, binom_i, binom_j, times_d(g.ret[1]))
       IN IF g.status # "ok"
          THEN /\ accesses' = <<Access("stock", "get", binom_i - 1, binom_j - 1,
                                       g.status, g.ret)>>
               /\ binom_pc' = "failed"
               /\ UNCHANGED <<stock_tree, binom_i, binom_j>>
          ELSE /\ accesses' = <<Access("stock", "get", binom_i - 1, binom_j - 1,
                                       g.status, g.ret),
                                Access("stock", "set", binom_i, binom_j, w.status, <<>>)>>
               /\ stock_tree' = w.nodes
               /\ binom_pc' = IF w.status = "ok" THEN "forward" ELSE "failed"
               /\ IF binom_j = binom_i
                  THEN binom_i' = binom_i + 1 /\ binom_j' = 0
                  ELSE binom_j' = binom_j + 1 /\ UNCHANGED binom_i
    /\ UNCHANGED <<steps, option, value_tree, last_level, treeVars, lsmVars, gbmVars>>

\* The forward loop is over: last_level = stock_tree.get_level(steps);
\* value_tree = utils.Tree(steps).
LastLevel ==
    /\ binom_pc = "forward"
    /\ binom_i \notin forward_levels(steps)
    /\ LET l == get_level(stock_tree, steps)
       IN IF l.status # "ok"
          THEN /\ binom_pc' = "failed"
               /\ UNCHANGED <<last_level, value_tree, binom_i>>
          ELSE /\ last_level' = l.ret
               /\ value_tree' = Tree_init(steps)
               /\ binom_i' = 0
               /\ binom_pc' = "terminal"
    /\ accesses' = <<>>
    /\ UNCHANGED <<steps, option, stock_tree, binom_j, treeVars, lsmVars, gbmVars>>

\* value_tree.set_node(steps - 1, i,
\*     option.price_fun(stock_tree.get_node(steps - 1, i), option.K))
Terminal ==
    /\ binom_pc = "terminal"
    /\ binom_i < Len(last_level)
    /\ LET g == get_node(stock_tree, steps - 1, binom_i)
           w == set_node(value_tree, steps - 1, binom_i,
                         price_fun(option.price_fun, g.ret[1], option.K))
       IN IF g.status # "ok"
          THEN /\ accesses' = <<Access("stock", "get", steps - 1, binom_i,
                                       g.status, g.ret)>>
               /\ binom_pc' = "failed"
               /\ UNCHANGED <<value_tree, binom_i>>
          ELSE /\ accesses' = <<Access("stock", "get", steps - 1, binom_i,
                                       g.status, g.ret),
                                Access("value", "set", steps - 1, binom_i,
                                       w.status, <<>>)>>
               /\ value_tree' = w.nodes
               /\ binom_pc' = IF w.status = "ok" THEN "terminal" ELSE "failed"
               /\ binom_i' = binom_i + 1
    /\ UNCHANGED <<steps, option, stock_tree, last_level, binom_j, treeVars,
                   lsmVars, gbmVars>>

\* The terminal loop is over: the backward loops start with
\* i = steps - 2 and j = 1.
StartBackward ==
    /\ binom_pc = "terminal"
    /\ binom_i >= Len(last_level)
    /\ binom_pc' = "backward"
    /\ binom_i' = steps - 2
    /\ binom_j' = 1
    /\ accesses' = <<>>
    /\ UNCHANGED <<steps, option, stock_tree, value_tree, last_level, treeVars,
                   lsmVars, gbmVars>>

\* v_t = (1 / cc_rate) * (q_u * value_tree.get_node(i + 1, j - 1) +
\* q_d * value_tree.get_node(i + 1, j)); value_tree.set_node(i, j - 1, v_t),
\* and after the round j = i + 1 the next i.
Backward ==
    /\ binom_pc = "backward"
    /\ binom_i >= 0
    /\ binom_j <= binom_i + 1
    /\ LET up == get_node(value_tree, binom_i + 1, binom_j - 1)
           down == get_node(value_tree, binom_i + 1, binom_j)
           w == set_node(value_tree, binom_i, binom_j - 1,
                         v_t(up.ret[1], down.ret[1]))
       IN IF up.status # "ok"
          THEN /\ accesses' = <<Access("value", "get", binom_i + 1, binom_j - 1,
                                       up.status, up.ret)>>
               /\ binom_pc' = "failed"
               /\ UNCHANGED <<value_tree, binom_i, binom_j>>
          ELSE IF down.status # "ok"
          THEN /\ accesses' = <<Access("value", "get", binom_i + 1, binom_j - 1,
                                       up.status, up.ret),
                                Access("value", "get", binom_i + 1, binom_j,
                                       down.status, down.ret)>>
               /\ binom_pc' = "failed"
               /\ UNCHANGED <<value_tree, binom_i, binom_j>>
          ELSE /\ accesses' = <<Access("value", "get", binom_i + 1, binom_j - 1,
                                       up.status, up.ret),
                                Access("value", "get", binom_i + 1, binom_j,
                                       down.status, down.ret),
                                Access("value", "set", binom_i, binom_j - 1,
                                       w.status, <<>>)>>
               /\ value_tree' = w.nodes
               /\ binom_pc' = IF w.status = "ok" THEN "backward" ELSE "failed"
               /\ IF binom_j = binom_i + 1
                  THEN binom_i' = binom_i - 1 /\ binom_j' = 1
                  ELSE binom_j' = binom_j + 1 /\ UNCHANGED binom_i
    /\ UNCHANGED <<steps, option, stock_tree, last_level, treeVars, lsmVars, gbmVars>>

\* return (stock_tree, value_tree)
BinomReturn ==
    /\ binom_pc = "backward"
    /\ binom_i < 0
    /\ binom_pc' = "done"
    /\ accesses' = <<>>
    /\ UNCHANGED <<steps, option, stock_tree, value_tree, last_level, binom_i,
                   binom_j, treeVars, lsmVars, gbmVars>>

BinomNext ==
    \/ \E opt \in Options, n \in 1 .. MaxSteps : SetSpot(opt, n)
    \/ ForwardUp
    \/ ForwardDown
    \/ LastLevel
    \/ Terminal
    \/ StartBackward
    \/ Backward
    \/ BinomReturn

\* -------------------------------------------------------- options/gbm.py
\* Largest number of paths and of steps simulate_gbm is called with.
MaxGbmPaths == 4

MaxGbmSteps == 2

\* The arguments drawn: horizons and path counts from below zero on, step
\* counts from zero on.
GbmHorizons == (0 - 1) .. MaxT

GbmPathCounts == (0 - 2) .. MaxGbmPaths

GbmStepCounts == 0 .. MaxGbmSteps

\* np.random.standard_normal: the draws, one per pair of paths.
Normals == {0 - 1, 0, 1}

\* The matrix holds the logarithms of the values: start_value is
\* LogStart, and multiplying by np.exp(drift + sigma * sqrt_dt * z) adds
\* Drift + Vol * z.
LogStart == 0

Drift == 1

Vol == 2

NoGbmArgs == [T |-> 0, number_of_paths |-> 0, number_of_steps |-> 0]

\* if T <= 0: raise ValueError
horizon_rejected_below_zero(T) == T < 0

horizon_rejected(T) == T <= 0

\* if number_of_paths % 2 == 1: raise ValueError
paths_rejected(n) == n % 2 = 1

\* np.concatenate((normals, -normals))
antithetic(normals) ==
    [k \in 1 .. (2 * Len(normals)) |->
        IF k <= Len(normals) THEN normals[k] ELSE 0 - normals[k - Len(normals)]]

\* output[i - 1] * np.exp(drift + sigma * sqrt_dt * normals)
gbm_row(prev, normals) ==
    [k \in 1 .. Len(prev) |-> prev[k] + Drift + Vol * antithetic(normals)[k]]

GbmRest ==
    /\ gbm_args = NoGbmArgs
    /\ gbm_raised = "none"
    /\ gbm_output = <<>>
    /\ gbm_i = 0

GbmIdle == gbm_pc = "idle" /\ GbmRest

\* simulate_gbm up to its loop: the two checks, dt = T / number_of_steps
\* (a ZeroDivisionError for no steps) and the first row
\* np.full(number_of_paths, start_value) (a ValueError of numpy for a
\* negative count).
GbmStart(T, n, m) ==
    /\ gbm_pc = "start"
    /\ gbm_args' = [T |-> T, number_of_paths |-> n, number_of_steps |-> m]
    /\ IF horizon_rejected(T) \/ paths_rejected(n)
       THEN /\ gbm_pc' = "raised"
            /\ gbm_raised' = "ValueError"
            /\ UNCHANGED <<gbm_output, gbm_i>>
       ELSE IF m = 0
       THEN /\ gbm_pc' = "raised"
            /\ gbm_raised' = "ZeroDivisionError"
            /\ UNCHANGED <<gbm_output, gbm_i>>
       ELSE IF n < 0
       THEN /\ gbm_pc' = "raised"
            /\ gbm_raised' = "ValueError"
            /\ UNCHANGED <<gbm_output, gbm_i>>
       ELSE /\ gbm_pc' = "loop"
            /\ gbm_output' = <<[k \in 1 .. n |-> LogStart]>>
            /\ gbm_i' = 1
            /\ UNCHANGED gbm_raised
    /\ UNCHANGED <<treeVars, lsmVars, binomVars>>

\* One round of the loop: normals, their negation, and the next row.
GbmStep(normals) ==
    /\ gbm_pc = "loop"
    /\ gbm_i <= gbm_args.number_of_steps
    /\ gbm_output' = Append(gbm_output, gbm_row(gbm_output[gbm_i], normals))
    /\ gbm_i' = gbm_i + 1
    /\ UNCHANGED <<gbm_pc, gbm_args, gbm_raised, treeVars, lsmVars, binomVars>>

\* return np.array(output)
GbmReturn ==
    /\ gbm_pc = "loop"
    /\ gbm_i > gbm_args.number_of_steps
    /\ gbm_pc' = "done"
    /\ UNCHANGED <<gbm_args, gbm_raised, gbm_output, gbm_i, treeVars, lsmVars,
                   binomVars>>

GbmNext ==
    \/ \E T \in GbmHorizons, n \in GbmPathCounts, m \in GbmStepCounts :
           GbmStart(T, n, m)
    \/ \E normals \in [1 .. (gbm_args.number_of_paths \div 2) -> Normals] :
           GbmStep(normals)
    \/ GbmReturn

\* ------------------------------------------------------- specifications
\* A Tree and the calls made on it.
TreeInit == TreeIdle /\ LsmIdle /\ BinomIdle /\ GbmIdle

TreeSpec == TreeInit /\ [][TreeNext]_vars

\* One call of lsm.
LsmInit == TreeIdle /\ lsm_pc = "start" /\ LsmRest /\ BinomIdle /\ GbmIdle

LsmSpec == LsmInit /\ [][LsmNext]_vars

\* One call of binom_option, which runs to its end once called.
BinomInit == TreeIdle /\ LsmIdle /\ binom_pc = "start" /\ BinomRest /\ GbmIdle

BinomSpec == BinomInit /\ [][BinomNext]_vars /\ WF_vars(BinomNext)

\* One call of simulate_gbm.
GbmInit == TreeIdle /\ LsmIdle /\ BinomIdle /\ gbm_pc = "start" /\ GbmRest

GbmSpec == GbmInit /\ [][GbmNext]_vars

\* ------------------------------------------------- claims about the Tree
IsNodeCall == created /\ call.op \in {"get_node", "set_node"}

\* C2 as stated: on a tree of height H every set_node(l, j, v) with
\* 0 <= j <= l <= H, level H included, succeeds and get_node(l, j) then
\* returns v.
C2_RoundTripUpToHeight ==
    (created /\ call.op = "set_node"
        /\ 0 <= call.element /\ call.element <= call.level
        /\ call.level <= height)
    => /\ result.status = "ok"
       /\ get_node(nodes, call.level, call.element) = Ok(<<call.value>>)

\* C2 amended: on a tree of height H every set_node(l, j, v) with
\* 0 <= j <= l <= H - 1 succeeds and get_node(l, j) then returns v; the
\* tree holds the levels 0 .. H - 1 only.
C2_RoundTripBelowHeight ==
    (created /\ call.op = "set_node"
        /\ 0 <= call.element /\ call.element <= call.level
        /\ call.level <= height - 1)
    => /\ result.status = "ok"
       /\ get_node(nodes, call.level, call.element) = Ok(<<call.value>>)

C2_Witness ==
    /\ created /\ call.op = "set_node" /\ result.status = "ok"
    /\ call.level = height - 1 /\ call.level >= 1
    /\ call.element = call.level
    /\ \E k \in 1 .. Len(nodes) : nodes[k] # NaN /\ nodes[k] # call.value

\* C3: with a non-negative level and a non-negative index, get_node and
\* set_node fail whenever index > level or level > height, and the failing
\* call leaves every stored value as it was.
C3_OutOfBoundsFails ==
    [][(/\ created'
        /\ call'.op \in {"get_node", "set_node"}
        /\ call'.level >= 0 /\ call'.element >= 0
        /\ (call'.element > call'.level \/ call'.level > height'))
       => (result'.status # "ok" /\ nodes' = nodes)]_vars

C3_Witness ==
    /\ created /\ call.op = "set_node"
    /\ call.element >= 0 /\ call.element <= call.level
    /\ call.level > height
    /\ result.status = "IndexError"
    /\ \E k \in 1 .. Len(nodes) : nodes[k] # NaN

\* C4 as stated: get_node and set_node called with a negative level or a
\* negative index always fail.
C4_NegativeFails ==
    (IsNodeCall /\ (call.level < 0 \/ call.element < 0))
    => result.status # "ok"

\* C5 as stated: a tree of height H holds exactly H(H+1)/2 + H + 1 slots,
\* whatever calls were made on it.
C5_SizeWithLastLevel ==
    created => Len(nodes) = (height * (height + 1)) \div 2 + height + 1

\* C5 amended: a tree of height H holds exactly H(H+1)/2 slots, and still
\* does after any sequence of get_node, set_node, get_level and repr calls,
\* failed or not.
C5_SizeIsTriangular ==
    created => Len(nodes) = (height * (height + 1)) \div 2

C5_Witness ==
    /\ created /\ height = MaxHeight
    /\ call.op = "set_node" /\ result.status = "IndexError"
    /\ \E k \in 1 .. Len(nodes) : nodes[k] # NaN

\* C6 as stated: for 0 <= level <= height, get_level(level) returns the
\* level + 1 values get_node(level, 0), ..., get_node(level, level).
C6_LevelValuesOfLevel ==
    (created /\ call.op = "get_level" /\ 0 <= call.level
        /\ call.level <= height)
    => /\ result.status = "ok"
       /\ Len(result.ret) = call.level + 1
       /\ \A j \in 0 .. call.level :
              get_node(nodes, call.level, j) = Ok(<<result.ret[j + 1]>>)

\* C6 amended: for 0 <= level <= height, get_level(level) returns exactly
\* level values, in index order those of the level above it:
\* get_node(level - 1, 0), ..., get_node(level - 1, level - 1); for level 0
\* that is the empty sequence.
C6_LevelValuesOfLevelAbove ==
    (created /\ call.op = "get_level" /\ 0 <= call.level
        /\ call.level <= height)
    => /\ result.status = "ok"
       /\ Len(result.ret) = call.level
       /\ \A j \in 0 .. (call.level - 1) :
              get_node(nodes, call.level - 1, j) = Ok(<<result.ret[j + 1]>>)

C6_Witness ==
    /\ created /\ call.op = "get_level" /\ result.status = "ok"
    /\ call.level = height /\ Len(result.ret) >= 2
    /\ result.ret[1] # result.ret[2]
    /\ result.ret[1] # NaN /\ result.ret[2] # NaN

\* The text of the levels 0 .. h - 1 from level l on: each level on a line
\* of its own, its values read with get_node from the highest index down.
RECURSIVE LevelLines(_, _, _)
LevelLines(ns, h, l) ==
    IF l > h - 1 THEN ""
    ELSE "\n"
         \o Join([k \in 1 .. (l + 1) |-> get_node(ns, l, l + 1 - k).ret[1]])
         \o LevelLines(ns, h, l + 1)

\* C10: repr(tree) is a leading blank line followed by one line per stored
\* level in increasing level order, each listing the level's values from
\* the highest index to the lowest; after set(0,0,1), set(1,0,2),
\* set(1,1,3) on a height-2 tree it is "\n\n1\n3, 2".
C10_Rendering ==
    (created /\ call.op = "repr")
    => /\ result.text = "\n" \o LevelLines(nodes, height, 0)
       /\ (height = 2 /\ nodes = <<1, 2, 3>>) => result.text = "\n\n1\n3, 2"

C10_Witness ==
    /\ created /\ call.op = "repr"
    /\ height = 2 /\ nodes = <<1, 2, 3>>
    /\ result.text = "\n\n1\n3, 2"

\* A call that violates a precondition Tree checks: a negative height, a
\* negative level or a level below the tree for get_level, an element
\* above its level for get_node / set_node.
IsPreconditionViolation ==
    \/ call.op = "create" /\ call.level < 0
    \/ created /\ call.op = "get_level"
           /\ (call.level < 0 \/ gauss_first_formula(call.level) > Len(nodes))
    \/ IsNodeCall /\ call.element > call.level

\* C12 as stated: every precondition violation of Tree is reported as a
\* ValueError.
C12_ReportedAsValueError ==
    IsPreconditionViolation => result.status = "ValueError"

\* --------------------------------------------------- claims about lsm
\* The time indices at which path p has a nonzero cash flow.
NonzeroEntries(p) == {k \in 1 .. Len(cash_flows) : cash_flows[k][p] # 0}

\* C1: from the first vector on, after every round of the loop and when lsm
\* returns, every path has at most one nonzero entry across all the vectors
\* of cash_flows.
C1_OneExercise ==
    lsm_pc \in {"loop", "fitted", "done"}
    => \A p \in Paths : Cardinality(NonzeroEntries(p)) <= 1

C1_Witness ==
    /\ lsm_pc = "done"
    /\ Len(cash_flows) >= 3
    /\ \E p \in Paths, q \in Paths :
           /\ cash_flows[1][p] # 0
           /\ cash_flows[2][q] # 0
           /\ cash_flows[Len(cash_flows)][p] = 0

\* C9 as stated: lsm discounts with the time increment dt = T / steps,
\* steps being the number of rows less one, so that a cash flow kept in the
\* terminal vector is discounted over the whole of T.
C9_DtIsHorizonOverSteps ==
    (lsm_pc = "done" /\ \E p \in Paths : cash_flows[Len(cash_flows)][p] # 0)
    => /\ lsm_value.dt.num * (number_of_steps - 1) = lsm_T * lsm_value.dt.den
       /\ lsm_value.powers[Len(cash_flows)] * lsm_value.dt.num
              = lsm_T * lsm_value.dt.den

\* The step from the regression of a round to the end of the round.
IsBackwardStep == lsm_pc = "fitted" /\ lsm_pc' = "loop"

\* The place of path p among the paths in the money of the round.
PlaceInMoney(p) ==
    Cardinality({q \in 1 .. p : current_intrinsic_values[q] > 0})

\* The sum of the entries of path p across the vectors of cfs.
PathSum(cfs, p) == sum_from(cfs, 1, p)

\* C13: in a backward step a path gets a cash flow (its intrinsic value) in
\* the vector of that step if and only if its intrinsic value is > 0 and
\* the fitted value times strike computed for it is strictly below the
\* intrinsic value; a path at equality or out of the money gets none.
C13_ExerciseRule ==
    [][IsBackwardStep =>
        \A p \in Paths :
            /\ cash_flows'[1][p] # 0
                   <=> (/\ current_intrinsic_values[p] > 0
                        /\ ols_fit[PlaceInMoney(p)] < current_intrinsic_values[p])
            /\ cash_flows'[1][p] \in {0, current_intrinsic_values[p]}]_vars

C13_Witness ==
    /\ lsm_pc = "loop" /\ Len(cash_flows) >= 2
    /\ cash_flows[1][1] = 0 /\ cash_flows[1][2] # 0
    /\ cash_flows[Len(cash_flows)][1] # 0
    /\ exercise_log[1].time = 0 /\ exercise_log[2].time # 0

\* C14: when lsm returns, a path whose exercise rule fired has its only
\* nonzero cash flow at the earliest time index at which it fired, equal to
\* its intrinsic value there; a path whose rule never fired has its
\* terminal intrinsic value at the terminal index and zeros elsewhere.
C14_FinalCashFlows ==
    lsm_pc = "done"
    => \A p \in Paths :
           IF exercise_log[p].time # 0
           THEN /\ NonzeroEntries(p) = {exercise_log[p].time}
                /\ cash_flows[exercise_log[p].time][p] = exercise_log[p].value
           ELSE /\ cash_flows[number_of_steps - 1][p] = terminal_payoff[p]
                /\ \A k \in 1 .. (number_of_steps - 2) : cash_flows[k][p] = 0

C14_Witness ==
    /\ lsm_pc = "done" /\ number_of_steps = MaxRows
    /\ \E p \in Paths, q \in Paths :
           /\ exercise_log[p].time = 1
           /\ cash_flows[1][p] # 0
           /\ exercise_log[q].time = 0
           /\ cash_flows[number_of_steps - 1][q] # 0

\* The number of steps lsm has left before it returns, at most.
StepsLeft ==
    IF lsm_pc = "start" THEN 2 * MaxRows
    ELSE IF lsm_pc = "done" THEN 0
    ELSE 2 * (number_of_steps - lsm_i) + (IF lsm_pc = "loop" THEN 2 ELSE 1)

\* A step of lsm from before its loop or from the head of its loop, on one
\* of its inputs: two rows, or a row with no path in the money, or the
\* horizon 1.
OneLsmStep ==
    \/ LsmStart(2, Zeros)
    \/ Regress(Zeros, <<>>)
    \/ LsmReturn(1)

\* C15: on R >= 2 rows lsm evaluates the exercise decisions at the time
\* indices R-2, R-3, ..., 1 in that order, each once, never at index 0, and
\* it ends, after exactly R-2 backward steps, with R-1 vectors in
\* cash_flows.  It ends because before the loop and at the head of the loop
\* it always has a next step (the body of the loop has no condition to
\* wait for), and every step leaves fewer steps to take.
C15_BackwardOrder ==
    /\ [](lsm_pc # "start" =>
            /\ \A k \in 1 .. Len(evaluated) :
                   evaluated[k] = number_of_steps - 1 - k /\ evaluated[k] >= 1
            /\ lsm_pc = "done" =>
                   /\ Len(evaluated) = number_of_steps - 2
                   /\ Len(cash_flows) = number_of_steps - 1)
    /\ [](lsm_pc # "done" => StepsLeft > 0)
    /\ [](lsm_pc \in {"start", "loop"} => ENABLED OneLsmStep)
    /\ [][StepsLeft' < StepsLeft]_vars

C15_Witness ==
    /\ lsm_pc = "done" /\ number_of_steps = MaxRows
    /\ Len(evaluated) = MaxRows - 2
    /\ evaluated[1] = MaxRows - 2 /\ evaluated[Len(evaluated)] = 1

\* C16: after the start and after every backward step realized_cash_flows
\* is, per path, the sum of the path's entries across the vectors of
\* cash_flows, and the target regress_fun is called with is that vector
\* restricted to the paths in the money, each entry divided by the strike.
C16_RegressionTarget ==
    /\ lsm_pc \in {"loop", "fitted", "done"} =>
           \A p \in Paths : realized_cash_flows[p] = PathSum(cash_flows, p)
    /\ (lsm_pc = "fitted" /\ regress_call.called) =>
           /\ Len(regress_call.y)
                  = Cardinality({p \in Paths : current_intrinsic_values[p] > 0})
           /\ \A p \in Paths :
                  current_intrinsic_values[p] > 0 =>
                      regress_call.y[PlaceInMoney(p)]
                          = [num |-> PathSum(cash_flows, p), den |-> Strike]

C16_Witness ==
    /\ lsm_pc = "fitted" /\ regress_call.called /\ lsm_i >= 3
    /\ current_intrinsic_values[1] = 0
    /\ Len(regress_call.y) = 1
    /\ regress_call.y[1].num # 0
    /\ cash_flows[1][2] # 0
    /\ realized_cash_flows[1] # 0

\* C17: a backward step leaves every stored entry and the realized cash
\* flow of a path that does not exercise in it as they were; with no path
\* in the money regress_fun is not called, no path exercises and every
\* stored entry is as it was.
C17_Frame ==
    [][IsBackwardStep =>
        /\ Len(cash_flows') = Len(cash_flows) + 1
        /\ \A p \in Paths :
               cash_flows'[1][p] = 0 =>
                   /\ \A k \in 1 .. Len(cash_flows) :
                          cash_flows'[k + 1][p] = cash_flows[k][p]
                   /\ realized_cash_flows'[p] = realized_cash_flows[p]
        /\ (\A p \in Paths : current_intrinsic_values[p] <= 0) =>
               /\ ~regress_call.called
               /\ cash_flows' = <<Zeros>> \o cash_flows]_vars

C17_Witness ==
    /\ lsm_pc = "loop" /\ Len(cash_flows) >= 3
    /\ cash_flows[1][1] # 0 /\ cash_flows[1][2] = 0
    /\ cash_flows[2][2] # 0
    /\ exercise_log[1].time # 0

\* C18: the k-th vector of the cash_flows handed to npv (k = 1 .. R-1)
\* holds the cash flows of time index k and npv multiplies it by the
\* one-step discount factor exactly k times: a cash flow at time index t
\* is discounted by t factors, the first vector by one.
C18_DiscountPowers ==
    lsm_pc = "done"
    => /\ lsm_value.powers = [k \in 1 .. (number_of_steps - 1) |-> k]
       /\ \A p \in Paths :
              LET t == IF exercise_log[p].time # 0 THEN exercise_log[p].time
                       ELSE number_of_steps - 1
                  v == IF exercise_log[p].time # 0 THEN exercise_log[p].value
                       ELSE terminal_payoff[p]
              IN \A e \in 1 .. (number_of_steps - 1) :
                     lsm_value.discounted[p][e] = IF e = t THEN v ELSE 0

C18_Witness ==
    /\ lsm_pc = "done" /\ number_of_steps = MaxRows
    /\ \E p \in Paths, q \in Paths :
           /\ exercise_log[p].time = 1
           /\ lsm_value.discounted[p][1] # 0
           /\ exercise_log[q].time = 2
           /\ lsm_value.discounted[q][2] # 0

\* ------------------------------------------- claims about binom_option
\* Every lattice access of the last statement succeeded, was within the
\* levels 0 .. steps - 1 and the indices 0 .. level, and, if it was a get,
\* returned a value set earlier in the call (not the fill value).
AccessesFine ==
    \A n \in 1 .. Len(accesses) :
        /\ accesses[n].status = "ok"
        /\ 0 <= accesses[n].element
        /\ accesses[n].element <= accesses[n].level
        /\ accesses[n].level <= steps - 1
        /\ accesses[n].op = "get" => accesses[n].ret # <<NaN>>

\* C7: for every steps >= 1 binom_option runs to its return and no lattice
\* access of it fails: every get_node / set_node on stock_tree and
\* value_tree is within the bounds of the tree, and every node read was
\* set earlier in the same call.
C7_NoAccessFails ==
    /\ [](binom_pc # "failed" /\ AccessesFine)
    /\ <>(binom_pc = "done")

C7_Witness ==
    /\ binom_pc = "done"
    /\ steps = MaxSteps
    /\ \A n \in 1 .. Len(value_tree) : value_tree[n] # NaN
    /\ \E n \in 1 .. Len(value_tree) : value_tree[n] > 0

\* The value a lattice holds at node (i, j).
NodeOf(tree, i, j) == get_node(tree, i, j).ret[1]

\* C19: after the forward pass every node (i, j) with 0 <= j <= i <=
\* steps - 1 of the price lattice holds S * u^(i-j) * d^j with d = 1 / u;
\* the lattice recombines: wherever both parents exist price(i, j) =
\* price(i-1, j) * u = price(i-1, j-1) * d; and node (0, 0) is the spot.
C19_Recombining ==
    binom_pc \in {"terminal", "backward", "done"}
    => /\ NodeOf(stock_tree, 0, 0) = option.S
       /\ \A i \in 0 .. (steps - 1) : \A j \in 0 .. i :
              /\ get_node(stock_tree, i, j).status = "ok"
              /\ NodeOf(stock_tree, i, j) * U ^ j = option.S * U ^ (i - j)
       /\ \A i \in 1 .. (steps - 1) : \A j \in 1 .. (i - 1) :
              /\ NodeOf(stock_tree, i, j) = NodeOf(stock_tree, i - 1, j) * U
              /\ NodeOf(stock_tree, i, j) * U = NodeOf(stock_tree, i - 1, j - 1)

C19_Witness ==
    /\ binom_pc = "terminal" /\ steps = MaxSteps /\ steps >= 3
    /\ NodeOf(stock_tree, 2, 1) = option.S
    /\ NodeOf(stock_tree, 2, 1) = NodeOf(stock_tree, 1, 1) * U
    /\ NodeOf(stock_tree, 2, 1) * U = NodeOf(stock_tree, 1, 0)

\* The number of ways to choose k of n.
RECURSIVE Choose(_, _)
Choose(n, k) ==
    IF k = 0 \/ k = n THEN 1 ELSE Choose(n - 1, k - 1) + Choose(n - 1, k)

\* The sum over the terminal nodes j .. n of the pay-off weighted with the
\* number of paths to the node and q_u ^ ups * q_d ^ downs, as a numerator
\* over QDen ^ n.
RECURSIVE ExpectedPayoff(_, _)
ExpectedPayoff(n, j) ==
    IF j > n THEN 0
    ELSE Choose(n, j) * QuNum ^ (n - j) * QdNum ^ j
             * price_fun(option.price_fun, NodeOf(stock_tree, n, j), option.K)
         + ExpectedPayoff(n, j + 1)

\* C20: when binom_option returns, every node (steps-1, j) of the value
\* lattice is f(price(steps-1, j), K), every node (i, j) with i < steps-1
\* is (1 / R) * (q_u * value(i+1, j) + q_d * value(i+1, j+1)) with no
\* comparison against the intrinsic value, and the root is the expected
\* terminal pay-off under q_u, q_d discounted over steps-1 periods.
C20_EuropeanValues ==
    binom_pc = "done"
    => /\ \A j \in 0 .. (steps - 1) :
              NodeOf(value_tree, steps - 1, j)
                  = price_fun(option.price_fun,
                              NodeOf(stock_tree, steps - 1, j), option.K)
       /\ \A i \in 0 .. (steps - 2) : \A j \in 0 .. i :
              NodeOf(value_tree, i, j) * (QDen * CcRate)
                  = QuNum * NodeOf(value_tree, i + 1, j)
                    + QdNum * NodeOf(value_tree, i + 1, j + 1)
       /\ NodeOf(value_tree, 0, 0) * (QDen * CcRate) ^ (steps - 1)
              = ExpectedPayoff(steps - 1, 0)

C20_Witness ==
    /\ binom_pc = "done" /\ steps = MaxSteps
    /\ NodeOf(value_tree, 0, 0) > 0
    /\ \E i \in 0 .. (steps - 2) : \E j \in 0 .. i :
           price_fun(option.price_fun, NodeOf(stock_tree, i, j), option.K)
               > NodeOf(value_tree, i, j)

\* ------------------------------------------- claims about simulate_gbm
\* C11: simulate_gbm raises ValueError whenever T <= 0 or the number of
\* paths is odd, whatever the other arguments, and then produces no matrix.
C11_InvalidArguments ==
    (gbm_pc \in {"loop", "done", "raised"}
        /\ (gbm_args.T <= 0 \/ gbm_args.number_of_paths % 2 = 1))
    => /\ gbm_pc = "raised"
       /\ gbm_raised = "ValueError"
       /\ gbm_output = <<>>

C11_Witness ==
    /\ gbm_pc = "raised" /\ gbm_raised = "ValueError" /\ gbm_output = <<>>
    /\ gbm_args.T = 0
    /\ gbm_args.number_of_paths % 2 = 0 /\ gbm_args.number_of_paths > 0
    /\ gbm_args.number_of_steps > 0

====
